---- MODULE Spec2Model ----
(***************************************************************************)
(* The analysis session of the exam organiser: the App component's state   *)
(* (part_001), the file upload and result controls that drive it           *)
(* (part_002) and the extraction service (services/geminiService.ts).      *)
(*                                                                         *)
(* Text is a sequence of string tokens (<<>> is the empty string).  An     *)
(* optional value is a sequence of length at most one: <<>> is undefined / *)
(* null, <<v>> is the value v.                                             *)
(***************************************************************************)
EXTENDS Integers, Sequences, FiniteSets, Bags, TLC

\* ------------------------------------------------------------------ bounds
\* processAnalysis invocations in one behaviour
MaxCalls == 2
\* records created in one behaviour
MaxRecords == 2
\* files waiting in the queue
MaxQueue == 2
\* items in the labResults of a sample
MaxResults == 3
\* the last day of the month the clock reaches
MaxDate == 7

\* ------------------------------------------------------------ program text
MaxFileMB == 15

ConfigErrorMessage == <<"Chave de API nao configurada.">>

EmptyResponseMessage == <<"Falha ao gerar resposta.">>

GenericErrorMessage == <<"Nao foi possivel processar o documento. Tente novamente.">>

UnknownErrorMessage == <<"Ocorreu um erro desconhecido ao processar o exame.">>

SemDados == <<"Sem dados">>

\* ------------------------------------------------------------ small helpers
None == <<>>

Some(v) == <<v>>

\* JavaScript truthiness of an optional text: undefined and "" are falsy
TruthyText(o) == o # None /\ o[1] # <<>>

\* x || d for an optional text x
OrText(o, d) == IF TruthyText(o) THEN o[1] ELSE d

\* `${x}` of an optional text: undefined prints as "undefined"
Interp(o) == IF o = None THEN <<"undefined">> ELSE o[1]

RECURSIVE JoinWith(_, _)
\* Array.prototype.join over texts
JoinWith(texts, sep) ==
    IF texts = <<>> THEN <<>>
    ELSE IF Len(texts) = 1 THEN texts[1]
    ELSE texts[1] \o sep \o JoinWith(Tail(texts), sep)

RECURSIVE FilterSeq(_, _)
\* Array.prototype.filter, keeping the elements whose id differs from id
FilterSeq(s, id) ==
    IF s = <<>> THEN <<>>
    ELSE IF s[1].id # id THEN <<s[1]>> \o FilterSeq(Tail(s), id)
    ELSE FilterSeq(Tail(s), id)

SeqsUpTo(S, n) == UNION {[1..k -> S] : k \in 0..n}

\* ------------------------------------------------------ raw extraction data
LabItem(abbr, value, abn) ==
    [abbreviation |-> <<abbr>>, value |-> value, referenceRange |-> None, abnormality |-> abn]

RawLab ==
    [patientInitials |-> Some(<<"MJR">>), patientAge |-> Some(<<"45 anos">>),
     collectionDate |-> Some(<<"01/02">>), category |-> Some("LAB"),
     labResults |-> Some(<<LabItem("Hb", <<"12", ",", "5">>, "NORMAL"),
                           LabItem("Na", <<"150">>, "HIGH")>>),
     nonLabData |-> None]

RawNonLab ==
    [patientInitials |-> Some(<<"ABC">>), patientAge |-> None,
     collectionDate |-> None, category |-> Some("NON_LAB"),
     labResults |-> None,
     nonLabData |-> Some([examTitle |-> Some(<<"USG Abdominal">>),
                          mainFindings |-> Some(<< <<"Figado normal">> >>),
                          impression |-> Some(<<"Sem alteracoes">>)])]

\* the schema makes nonLabData nullable and only patientInitials and category
\* required: a NON_LAB object may come without its report
RawNonLabBare ==
    [patientInitials |-> Some(<<"XYZ">>), patientAge |-> None,
     collectionDate |-> None, category |-> Some("NON_LAB"),
     labResults |-> Some(<<LabItem("K", <<"3">>, "LOW")>>),
     nonLabData |-> None]

\* the raw objects the extraction service answers with in the session model
SessionRaw == {RawLab, RawNonLabBare}

\* --------------------------------------------------------- geminiService.ts
\* the fallback summary of one raw object
SummaryString(patientData) ==
    IF patientData.category = Some("NON_LAB") /\ patientData.nonLabData # None
    THEN Interp(patientData.nonLabData[1].examTitle) \o <<": ">>
             \o Interp(patientData.nonLabData[1].impression)
    ELSE IF patientData.labResults # None
         THEN JoinWith([i \in 1..Len(patientData.labResults[1]) |->
                            patientData.labResults[1][i].abbreviation \o <<" ">>
                                \o patientData.labResults[1][i].value],
                       <<" / ">>)
         ELSE SemDados

\* a record built without the defaults for category and labResults
NormalizeRecordNoDefaults(patientData, id) ==
    [id |-> id,
     patientInitials |-> OrText(patientData.patientInitials, <<"N/A">>),
     patientAge |-> OrText(patientData.patientAge, <<>>),
     collectionDate |-> OrText(patientData.collectionDate, <<>>),
     category |-> IF patientData.category # None THEN patientData.category[1] ELSE "",
     results |-> IF patientData.labResults # None THEN patientData.labResults[1] ELSE <<>>,
     nonLabData |-> patientData.nonLabData,
     rawSummary |-> IF patientData.labResults # None THEN SummaryString(patientData)
                    ELSE <<>>]

\* the record built from one raw object, with the id drawn for it
NormalizeRecord(patientData, id) ==
    [id |-> id,
     patientInitials |-> OrText(patientData.patientInitials, <<"N/A">>),
     patientAge |-> OrText(patientData.patientAge, <<>>),
     collectionDate |-> OrText(patientData.collectionDate, <<>>),
     category |-> IF patientData.category # None /\ patientData.category[1] # ""
                  THEN patientData.category[1] ELSE "LAB",
     results |-> IF patientData.labResults # None THEN patientData.labResults[1] ELSE <<>>,
     nonLabData |-> patientData.nonLabData,
     rawSummary |-> SummaryString(patientData)]

\* the response of generateContent: the call throws, or returns a text that is
\* empty, no JSON, or the JSON of a value
JsonNull == [kind |-> "null", items |-> <<>>]

\* the JSON values of the model: an array of raw objects, one raw object, null
JsonValues ==
    {[kind |-> "array", items |-> b] : b \in SeqsUpTo(SessionRaw, MaxRecords)}
        \cup {[kind |-> "object", items |-> <<r>>] : r \in SessionRaw}
        \cup {JsonNull}

Responses ==
    {[kind |-> "throw", form |-> "none", value |-> JsonNull],
     [kind |-> "text", form |-> "empty", value |-> JsonNull],
     [kind |-> "text", form |-> "garbage", value |-> JsonNull]}
        \cup {[kind |-> "text", form |-> "json", value |-> v] : v \in JsonValues}

\* no response: the request was never sent
NoResponse == [kind |-> "throw", form |-> "none", value |-> JsonNull]

\* JSON.parse: throws on a text that is no JSON
JsonParse(resp) == [ok |-> resp.form = "json", value |-> resp.value]

\* Array.isArray(parsedData) ? parsedData : [parsedData]
ResultsArray(parsedData) ==
    IF parsedData.kind = "array" THEN [ok |-> TRUE, items |-> parsedData.items]
    ELSE IF parsedData.kind = "object" THEN [ok |-> TRUE, items |-> parsedData.items]
    ELSE [ok |-> FALSE, items |-> <<>>]

\* ids that start again with every batch
RandomUUIDPerBatch(nid, k) == k

\* crypto.randomUUID(): the k-th id drawn after nid ids have been drawn
RandomUUID(nid, k) == nid + k

\* a try block whose catch rethrows the error it caught
ExtractRecordsRethrows(resp, nid) ==
    IF resp.kind = "throw"
    THEN [ok |-> FALSE, records |-> <<>>, message |-> Some(<<"Failed to fetch">>)]
    ELSE IF resp.form = "empty"
    THEN [ok |-> FALSE, records |-> <<>>, message |-> Some(EmptyResponseMessage)]
    ELSE IF ~JsonParse(resp).ok \/ ~ResultsArray(JsonParse(resp).value).ok
    THEN [ok |-> FALSE, records |-> <<>>, message |-> Some(<<"Unexpected token">>)]
    ELSE LET resultsArray == ResultsArray(JsonParse(resp).value).items
         IN  [ok |-> TRUE,
              records |-> [k \in 1..Len(resultsArray) |->
                              NormalizeRecord(resultsArray[k], RandomUUID(nid, k))],
              message |-> None]

\* the try block of analyzeLabExam on a response: the records, or the error thrown.
\* Every throw inside the block (the call's, the empty text's, JSON.parse's, the
\* property read on a null element) is caught and replaced by the generic error.
ExtractRecords(resp, nid) ==
    IF resp.kind = "throw" \/ resp.form = "empty" \/ ~JsonParse(resp).ok
           \/ ~ResultsArray(JsonParse(resp).value).ok
    THEN [ok |-> FALSE, records |-> <<>>, message |-> Some(GenericErrorMessage)]
    ELSE LET resultsArray == ResultsArray(JsonParse(resp).value).items
         IN  [ok |-> TRUE,
              records |-> [k \in 1..Len(resultsArray) |->
                              NormalizeRecord(resultsArray[k], RandomUUID(nid, k))],
              message |-> None]

\* ------------------------------------------------------------------- files
File(type, mb) == [type |-> type, size |-> mb]

\* what a file dialog or a drop can hand over: a small PDF, a text file and a
\* PDF of 16 MB
PickableFiles ==
    {File("application/pdf", 1), File("text/plain", 1), File("application/pdf", 16)}

\* the selections of the model: one file at a time
Selections == {<<f>> : f \in PickableFiles}

\* file.type.includes('pdf') || file.type.includes('image/')
TypeAccepted(f) == f.type \in {"application/pdf", "image/jpeg", "image/png"}

\* validateAndSelect: the files handed to onFileSelect (none when one is refused)
ValidateAndSelect(fileList) ==
    IF \E i \in 1..Len(fileList) :
           ~TypeAccepted(fileList[i]) \/ fileList[i].size > MaxFileMB
    THEN <<>>
    ELSE fileList

\* ------------------------------------------------------------------- state
VARIABLES
    state,          \* AnalysisState: status, data (optional list), error (optional text)
    queuedFiles,    \* the files waiting to be processed
    preferences,    \* AnalysisPreferences
    auth,           \* "checking", "signedOut" or "signedIn"
    signingOut,     \* handleLogout is awaiting authService.signOut()
    recording,      \* the render whose onAudioSubmit the running recorder holds
    calls,          \* the bag of processAnalysis invocations that have not yet returned
    nextCall,       \* invocations started so far, plus one
    nextId,         \* ids drawn so far
    apiKey,         \* import.meta.env.GEMINI_API_KEY is set
    hist,           \* history: records appended and removed, and whether only
                    \* successful analyses and removals have happened
    last,           \* history: the run of analyzeLabExam that ended in the step
                    \* just taken, if one did
    clipboard,      \* the text last written with navigator.clipboard.writeText
    today           \* the day new Date() gives: getDate() and getMonth()

vars == <<state, queuedFiles, preferences, auth, signingOut, recording, calls,
          nextCall, nextId, apiKey, hist, last, clipboard, today>>

\* the day the page is opened: 6 November (getMonth() counts from 0)
FirstDay == [date |-> 6, month |-> 10]

\* useState<AnalysisState>({ status: 'idle', data: null })
InitialState == [status |-> "idle", data |-> None, error |-> None]

\* the state handleReset sets
ResetState == [status |-> "idle", data |-> None, error |-> None]

Init ==
    /\ state = InitialState
    /\ queuedFiles = <<>>
    /\ preferences = [showReferenceValues |-> FALSE, groupDates |-> FALSE]
    /\ auth = "checking"
    /\ signingOut = FALSE
    /\ recording = None
    /\ calls = EmptyBag
    /\ nextCall = 1
    /\ nextId = 0
    /\ apiKey \in BOOLEAN
    /\ hist = [added |-> 0, removed |-> 0, clean |-> TRUE]
    /\ last = None
    /\ clipboard = None
    /\ today = FirstDay

\* the history once something other than a successful analysis or a removal
\* has happened: nothing more is counted
Unclean == [added |-> 0, removed |-> 0, clean |-> FALSE]

\* the list held in state.data (null holds no record)
Records(st) == IF st.data = None THEN <<>> ELSE st.data[1]

\* what the signed-in user sees
Shown(status) == auth = "signedIn" /\ state.status = status

\* ----------------------------------------------------------- authentication
\* authService.getSession() resolves: setSession, setIsAuthChecking(false)
AuthChecked ==
    /\ auth = "checking"
    /\ auth' \in {"signedOut", "signedIn"}
    /\ UNCHANGED <<state, queuedFiles, preferences, signingOut, recording, calls,
                   nextCall, nextId, apiKey, hist>>
    /\ last' = None
    /\ UNCHANGED <<clipboard, today>>

\* onAuthStateChange delivers the session of a sign-in on the AuthScreen
Login ==
    /\ auth = "signedOut"
    /\ auth' = "signedIn"
    /\ UNCHANGED <<state, queuedFiles, preferences, signingOut, recording, calls,
                   nextCall, nextId, apiKey, hist>>
    /\ last' = None
    /\ UNCHANGED <<clipboard, today>>

\* handleLogout up to its await of authService.signOut()
LogoutClick ==
    /\ auth = "signedIn"
    /\ ~signingOut
    /\ signingOut' = TRUE
    /\ UNCHANGED <<state, queuedFiles, preferences, auth, recording, calls,
                   nextCall, nextId, apiKey, hist>>
    /\ last' = None
    /\ UNCHANGED <<clipboard, today>>

\* handleLogout after the await: setSession(null); handleReset()
LogoutDone ==
    /\ signingOut
    /\ signingOut' = FALSE
    /\ auth' = "signedOut"
    /\ state' = ResetState
    /\ queuedFiles' = <<>>
    /\ recording' = None
    /\ hist' = Unclean
    /\ UNCHANGED <<preferences, calls, nextCall, nextId, apiKey>>
    /\ last' = None
    /\ UNCHANGED <<clipboard, today>>

\* ---------------------------------------------------------- processAnalysis
\* processAnalysis(input, existingData) up to its first await, in the render whose
\* preferences are prefs
ProcessAnalysis(input, existingData, prefs) ==
    /\ nextCall <= MaxCalls
    /\ state' = [status |-> "analyzing", data |-> existingData, error |-> None]
    /\ calls' = calls (+) SetToBag({[input |-> input, existingData |-> existingData,
                                     preferences |-> prefs]})
    /\ nextCall' = nextCall + 1
    /\ recording' = None
    /\ UNCHANGED <<queuedFiles, preferences, auth, signingOut, nextId,
                   apiKey, hist>>
    /\ last' = None
    /\ UNCHANGED <<clipboard, today>>

TextInput == [kind |-> "text", files |-> <<>>]

\* a recorded Blob: one binary object to convert
AudioInput == [kind |-> "blob", files |-> <<File("audio/webm", 1)>>]

FilesInput(files) == [kind |-> "files", files |-> files]

\* the number of FileReaders a binary input starts
Conversions(input) == IF input.kind = "text" THEN 0 ELSE Len(input.files)

\* what happens around one run of analyzeLabExam: the conversions that end with
\* a reader error (then no request is sent), and how generateContent ends
AllEnvironments ==
    {[bad |-> b, resp |-> r] : b \in (SUBSET (1..MaxQueue)) \ {{}}, r \in {NoResponse}}
        \cup {[bad |-> {}, resp |-> r] : r \in Responses}

\* those that can happen to input, with at most room raw objects in the response
Environments(input, room) ==
    {env \in AllEnvironments :
        /\ env.bad \subseteq 1..Conversions(input)
        /\ Len(env.resp.value.items) <= room}

\* fileToBase64: the payload of the file, or rejected (none) on a reader error
FileToBase64(file, readerError) ==
    IF readerError THEN None ELSE Some(<<"base64", file.type, file.size>>)

\* Promise.all: the values in order, or rejected (none) when one is rejected
PromiseAll(promises) ==
    IF \E i \in 1..Len(promises) : promises[i] = None THEN None
    ELSE Some([i \in 1..Len(promises) |-> promises[i][1]])

TextPart == [kind |-> "text", mimeType |-> "", data |-> <<>>]

InlinePart(mimeType, base64) == [kind |-> "inlineData", mimeType |-> mimeType, data |-> base64]

\* parts built from the conversions that succeeded, the others skipped
BuildPartsOfConverted(input, bad) ==
    IF input.kind = "text" THEN Some(<<TextPart>>)
    ELSE Some([i \in 1..Cardinality({j \in 1..Len(input.files) : j \notin bad}) |->
                  InlinePart("application/pdf", <<"base64">>)])

\* the parts analyzeLabExam builds before its try block, or none when a
\* conversion is rejected
BuildParts(input, bad) ==
    IF input.kind = "text" THEN Some(<<TextPart>>)
    ELSE IF input.kind = "blob"
    THEN IF FileToBase64(input.files[1], 1 \in bad) = None THEN None
         ELSE Some(<<InlinePart(input.files[1].type,
                                FileToBase64(input.files[1], 1 \in bad)[1]),
                     TextPart>>)
    ELSE LET base64Results ==
                 PromiseAll([i \in 1..Len(input.files) |->
                                FileToBase64(input.files[i], i \in bad)])
         IN  IF base64Results = None THEN None
             ELSE Some([index \in 1..Len(input.files) |->
                           InlinePart(input.files[index].type, base64Results[1][index])])

\* an analyzeLabExam that looks for the credential inside its try block, after
\* the parts are built
AnalyzeLabExamLateKeyCheck(input, env, key, nid) ==
    IF BuildParts(input, env.bad) = None
    THEN [ok |-> FALSE, records |-> <<>>, message |-> None,
          conversions |-> Conversions(input), parts |-> None, requested |-> FALSE]
    ELSE IF ~key
    THEN [ok |-> FALSE, records |-> <<>>, message |-> Some(GenericErrorMessage),
          conversions |-> Conversions(input),
          parts |-> Some(BuildParts(input, env.bad)[1] \o <<TextPart>>),
          requested |-> FALSE]
    ELSE LET extracted == ExtractRecords(env.resp, nid)
         IN  [ok |-> extracted.ok, records |-> extracted.records,
              message |-> extracted.message,
              conversions |-> Conversions(input),
              parts |-> Some(BuildParts(input, env.bad)[1] \o <<TextPart>>),
              requested |-> TRUE]

\* analyzeLabExam(input, customAbbreviations, preferences) in environment env,
\* after nid ids have been drawn: the records returned or the message of the
\* error thrown (none: a reader's error event has no message), the conversions
\* started, the parts of the request and whether it was sent
AnalyzeLabExam(input, env, key, nid) ==
    IF ~key
    THEN [ok |-> FALSE, records |-> <<>>, message |-> Some(ConfigErrorMessage),
          conversions |-> 0, parts |-> None, requested |-> FALSE]
    ELSE IF BuildParts(input, env.bad) = None
    THEN [ok |-> FALSE, records |-> <<>>, message |-> None,
          conversions |-> Conversions(input), parts |-> None, requested |-> FALSE]
    ELSE LET extracted == ExtractRecords(env.resp, nid)
         IN  [ok |-> extracted.ok, records |-> extracted.records,
              message |-> extracted.message,
              conversions |-> Conversions(input),
              parts |-> Some(BuildParts(input, env.bad)[1] \o <<TextPart>>),
              requested |-> TRUE]

\* a merge that forgets the records held before
FinalDataDropsPrior(existingData, newResultsArray) == newResultsArray

\* finalData of processAnalysis
FinalData(existingData, newResultsArray) ==
    IF existingData # None THEN existingData[1] \o newResultsArray
    ELSE newResultsArray

\* a catch block that only logs: the failure is not stored
StateAfterSwallowsError(existingData, result) ==
    IF result.ok
    THEN [status |-> "success", data |-> Some(FinalData(existingData, result.records)),
          error |-> None]
    ELSE [status |-> "analyzing", data |-> existingData, error |-> None]

\* the state processAnalysis sets after analyzeLabExam has ended with result
\* (the error's message, or the fallback when it has none)
StateAfter(existingData, result) ==
    IF result.ok
    THEN [status |-> "success", data |-> Some(FinalData(existingData, result.records)),
          error |-> None]
    ELSE [status |-> "error", data |-> None,
          error |-> Some(OrText(result.message, UnknownErrorMessage))]

\* a queue emptied whenever an analysis ends, as in a finally block
QueueAfterAlwaysEmptied(input, result, queue) == <<>>

\* the queue processAnalysis leaves
QueueAfter(input, result, queue) ==
    IF result.ok /\ input.kind = "files" THEN <<>> ELSE queue

\* what the history keeps of a run of analyzeLabExam for invocation c
RunSummary(c, env, result) ==
    [kind |-> c.input.kind, files |-> Len(c.input.files),
     prior |-> Len(Records([data |-> c.existingData])),
     bad |-> env.bad, resp |-> <<env.resp.kind, env.resp.form, env.resp.value.kind>>,
     ok |-> result.ok, returned |-> Len(result.records), message |-> result.message,
     conversions |-> result.conversions, parts |-> result.parts # None,
     requested |-> result.requested,
     preferences |-> c.preferences,
     raw |-> IF result.requested THEN env.resp.value.items ELSE <<>>]

\* processAnalysis of invocation c from its first await to its end: the timer
\* fires, analyzeLabExam runs in environment env and the outcome is stored.
\* Between its start and this step the invocation reads and writes nothing of
\* the session.
Complete(c, env) ==
    /\ BagIn(c, calls)
    /\ env.bad \subseteq 1..Conversions(c.input)
    /\ Len(env.resp.value.items) <= MaxRecords - nextId
    /\ LET result == AnalyzeLabExam(c.input, env, apiKey, nextId)
       IN  /\ state' = StateAfter(c.existingData, result)
           /\ queuedFiles' = QueueAfter(c.input, result, queuedFiles)
           /\ nextId' = nextId + Len(result.records)
           /\ hist' = IF hist.clean /\ result.ok
                      THEN [hist EXCEPT !.added = @ + Len(result.records)]
                      ELSE Unclean
           /\ last' = Some(RunSummary(c, env, result))
           /\ UNCHANGED <<clipboard, today>>
    /\ calls' = calls (-) SetToBag({c})
    /\ recording' = None
    /\ UNCHANGED <<preferences, auth, signingOut, nextCall, apiKey>>

\* ------------------------------------------------------------- the idle screen
\* validateAndSelect on a drop or a file dialog, then handleFileSelect
FileSelect(fileList) ==
    /\ Shown("idle")
    /\ fileList \in Selections
    /\ Len(queuedFiles) + Len(fileList) <= MaxQueue
    /\ queuedFiles' = queuedFiles \o ValidateAndSelect(fileList)
    /\ UNCHANGED <<state, preferences, auth, signingOut, recording, calls,
                   nextCall, nextId, apiKey, hist>>
    /\ last' = None
    /\ UNCHANGED <<clipboard, today>>

\* handleRemoveFile
RemoveFile(indexToRemove) ==
    /\ Shown("idle")
    /\ indexToRemove \in 1..Len(queuedFiles)
    /\ queuedFiles' = [i \in 1..(Len(queuedFiles) - 1) |->
                          IF i < indexToRemove THEN queuedFiles[i] ELSE queuedFiles[i + 1]]
    /\ UNCHANGED <<state, preferences, auth, signingOut, recording, calls,
                   nextCall, nextId, apiKey, hist>>
    /\ last' = None
    /\ UNCHANGED <<clipboard, today>>

\* "Limpar tudo" of the queue list
ClearQueue ==
    /\ Shown("idle")
    /\ queuedFiles # <<>>
    /\ queuedFiles' = <<>>
    /\ UNCHANGED <<state, preferences, auth, signingOut, recording, calls,
                   nextCall, nextId, apiKey, hist>>
    /\ last' = None
    /\ UNCHANGED <<clipboard, today>>

\* toggleRef and toggleDates
TogglePreference(field) ==
    /\ Shown("idle")
    /\ field \in {"showReferenceValues", "groupDates"}
    /\ preferences' = [preferences EXCEPT ![field] = ~@]
    /\ UNCHANGED <<state, queuedFiles, auth, signingOut, recording, calls,
                   nextCall, nextId, apiKey, hist>>
    /\ last' = None
    /\ UNCHANGED <<clipboard, today>>

\* handleTextSubmit
TextSubmit ==
    /\ Shown("idle")
    /\ ProcessAnalysis(TextInput, state.data, preferences)

\* startRecording: the recorder's onstop keeps the onAudioSubmit of this render
StartRecording ==
    /\ Shown("idle")
    /\ recording = None
    /\ recording' = Some([data |-> state.data, preferences |-> preferences])
    /\ UNCHANGED <<state, queuedFiles, preferences, auth, signingOut, calls,
                   nextCall, nextId, apiKey, hist>>
    /\ last' = None
    /\ UNCHANGED <<clipboard, today>>

\* stopRecording: onstop calls the handleAudioSubmit it was given
AudioSubmit ==
    /\ Shown("idle")
    /\ recording # None
    /\ ProcessAnalysis(AudioInput, recording[1].data, recording[1].preferences)

\* handleStartProcessing
StartProcessing ==
    /\ Shown("idle")
    /\ queuedFiles # <<>>
    /\ ProcessAnalysis(FilesInput(queuedFiles), None, preferences)

\* ----------------------------------------------------------- the result screen
\* handleFileChange of ResultDisplay, then handleAddFilesFromResult
AddFilesFromResult(files) ==
    /\ Shown("success")
    /\ state.data # None
    /\ files \in Selections
    /\ ProcessAnalysis(FilesInput(files), state.data, preferences)

\* the ids a removal can name: those drawn so far, and one never drawn
RemovableIds == 0..nextId

\* an updater that leaves the result screen without clearing the list
RemoveExamUpdateKeepsList(prev, id) ==
    IF prev.data = None THEN prev
    ELSE IF Len(FilterSeq(prev.data[1], id)) = 0
         THEN [prev EXCEPT !.status = "idle", !.data = Some(<<>>)]
         ELSE [prev EXCEPT !.data = Some(FilterSeq(prev.data[1], id))]

\* an updater that keeps the result screen when the last record goes
RemoveExamUpdateStays(prev, id) ==
    IF prev.data = None THEN prev
    ELSE [prev EXCEPT !.data = Some(FilterSeq(prev.data[1], id))]

\* the state handleRemoveExam's updater returns for prev
RemoveExamUpdate(prev, id) ==
    IF prev.data = None THEN prev
    ELSE IF Len(FilterSeq(prev.data[1], id)) = 0
         THEN [prev EXCEPT !.status = "idle", !.data = None]
         ELSE [prev EXCEPT !.data = Some(FilterSeq(prev.data[1], id))]

\* handleRemoveExam
RemoveExam(id) ==
    /\ Shown("success")
    /\ state.data # None
    /\ id \in RemovableIds
    /\ state' = RemoveExamUpdate(state, id)
    /\ hist' = IF hist.clean
               THEN [hist EXCEPT
                       !.removed = @ + Len(Records(state)) - Len(Records(state'))]
               ELSE hist
    /\ UNCHANGED <<queuedFiles, preferences, auth, signingOut, recording, calls,
                   nextCall, nextId, apiKey>>
    /\ last' = None
    /\ UNCHANGED <<clipboard, today>>

\* ------------------------------------------------------------------- reset
\* a reset that leaves the queue alone
ResetKeepsQueue ==
    /\ auth = "signedIn"
    /\ state' = ResetState
    /\ hist' = Unclean
    /\ UNCHANGED <<queuedFiles, preferences, auth, signingOut, recording, calls,
                   nextCall, nextId, apiKey>>
    /\ last' = None
    /\ UNCHANGED <<clipboard, today>>

\* handleReset: the logo of the header, "Voltar" and "Limpar" of the result
\* screen, "Tentar Novamente" of the error panel
Reset ==
    /\ auth = "signedIn"
    /\ state' = ResetState
    /\ queuedFiles' = <<>>
    /\ hist' = Unclean
    /\ UNCHANGED <<preferences, auth, signingOut, recording, calls, nextCall,
                   nextId, apiKey>>
    /\ last' = None
    /\ UNCHANGED <<clipboard, today>>

\* ------------------------------------------------------------ the patient card
\* SYSTEM_CATEGORIES, in the order of its keys
SYSTEM_CATEGORIES ==
    <<[category |-> "HEMOGRAMA",
       items |-> <<"Hb", "Ht", "VCM", "HCM", "CHCM", "RDW", "Leuco", "Neut", "Linf",
                   "Mono", "Eos", "Plq", "MPV">>],
      [category |-> "RENAL", items |-> <<"Ur", "Cr", "Cist-C">>],
      [category |-> "ELETRÓLITOS",
       items |-> <<"Na", "K", "Ca", "Mg", "P", "Cl", "Cálcio Ion">>],
      [category |-> "METABÓLICO",
       items |-> <<"Glic", "HbA1c", "Homa-IR", "Insul", "Lac", "Lactato">>],
      [category |-> "LIPIDOGRAMA", items |-> <<"Col-T", "HDL", "LDL", "TG", "VLDL">>],
      [category |-> "HEPÁTICO",
       items |-> <<"TGO", "TGP", "GGT", "FA", "Bil-T", "Bil-D", "Bil-I", "Albumina",
                   "Proteínas">>],
      [category |-> "HORMONAL",
       items |-> <<"TSH", "T4L", "T3", "Vit-D", "Vit-B12", "PTH", "Cortisol">>],
      [category |-> "INFLAMATÓRIO", items |-> <<"PCR", "VHS", "Ferr", "Fibrin", "Proc">>],
      [category |-> "CARDÍACO", items |-> <<"Trop", "CK-MB", "BNP", "CK">>],
      [category |-> "GASOMETRIA",
       items |-> <<"pH", "pO2", "pCO2", "HCO3", "BE", "SatO2">>],
      [category |-> "URINA", items |-> <<"EAS", "Leuco-U", "Hem-U", "Prot-U">>]>>

\* the catch-all category
Outros == "OUTROS"

\* Array.prototype.includes of a list of strings, asked for the text abbr
Includes(items, abbr) == \E i \in 1..Len(items) : <<items[i]>> = abbr

RECURSIVE GetCategoryFrom(_, _)
\* the loop of getCategory over the entries that are left
GetCategoryFrom(entries, abbr) ==
    IF entries = <<>> THEN Outros
    ELSE IF Includes(Head(entries).items, abbr) THEN Head(entries).category
    ELSE GetCategoryFrom(Tail(entries), abbr)

\* a loop that starts at the second entry
GetCategorySkipsFirst(abbr) == GetCategoryFrom(Tail(SYSTEM_CATEGORIES), abbr)

\* getCategory(abbr)
GetCategory(abbr) == GetCategoryFrom(SYSTEM_CATEGORIES, abbr)

\* [...Object.keys(SYSTEM_CATEGORIES), 'OUTROS']
CategoriesOrder ==
    [i \in 1..(Len(SYSTEM_CATEGORIES) + 1) |->
        IF i <= Len(SYSTEM_CATEGORIES) THEN SYSTEM_CATEGORIES[i].category ELSE Outros]

\* String(n).padStart(2, '0')
PadStart2(n) == IF n < 10 THEN <<"0", ToString(n)>> ELSE <<ToString(n)>>

\* exam.collectionDate, or the day and month of today
DateStr(exam) ==
    IF exam.collectionDate # <<>> THEN exam.collectionDate
    ELSE PadStart2(today.date) \o <<"/">> \o PadStart2(today.month + 1)

\* a replace without the g flag: only the first dot is replaced
FormatValueFirstDot(val) ==
    [i \in 1..Len(val) |->
        IF val[i] = "." /\ \A j \in 1..(i - 1) : val[j] # "." THEN "," ELSE val[i]]

\* val.replace(/\./g, ',')
FormatValue(val) == [i \in 1..Len(val) |-> IF val[i] = "." THEN "," ELSE val[i]]

RECURSIVE TrimStart(_)
TrimStart(text) ==
    IF text # <<>> /\ Head(text) \in {" ", "\n"} THEN TrimStart(Tail(text)) ELSE text

RECURSIVE TrimEnd(_)
TrimEnd(text) ==
    IF text # <<>> /\ text[Len(text)] \in {" ", "\n"}
    THEN TrimEnd(SubSeq(text, 1, Len(text) - 1)) ELSE text

\* String.prototype.trim over the tokens of a text
Trim(text) == TrimEnd(TrimStart(text))

\* a filter that lets only the HIGH items through
IsAbnormalHighOnly(item) == item.abnormality = "HIGH"

\* item.abnormality === 'HIGH' || item.abnormality === 'LOW'
IsAbnormal(item) == item.abnormality = "HIGH" \/ item.abnormality = "LOW"

\* abnormalResults
AbnormalResults(exam) == SelectSeq(exam.results, IsAbnormal)

\* groupedResults[cat], empty when the key was never set
GroupedResults(exam, cat) ==
    LET InCat(item) == GetCategory(item.abbreviation) = cat
    IN  SelectSeq(exam.results, InCat)

\* one item of a line of the full text
FullItem(item) ==
    item.abbreviation \o <<" ">> \o FormatValue(item.value)
        \o (IF TruthyText(item.referenceRange)
            THEN <<" (Ref: ">> \o item.referenceRange[1] \o <<")">> ELSE <<>>)

\* lineItems of a group
LineItems(group) == JoinWith([i \in 1..Len(group) |-> FullItem(group[i])], <<" / ">>)

\* a line that carries its label for the catch-all category too
CategoryLineAllLabelled(exam, cat) ==
    IF GroupedResults(exam, cat) = <<>> THEN <<>>
    ELSE <<cat, ": ">> \o LineItems(GroupedResults(exam, cat)) \o <<"\n">>

\* what categoriesOrder.forEach adds to fullTextBody for cat
CategoryLine(exam, cat) ==
    IF GroupedResults(exam, cat) = <<>> THEN <<>>
    ELSE (IF cat = Outros THEN <<>> ELSE <<cat, ": ">>)
             \o LineItems(GroupedResults(exam, cat)) \o <<"\n">>

RECURSIVE FullTextBodyFrom(_, _)
FullTextBodyFrom(exam, cats) ==
    IF cats = <<>> THEN <<>>
    ELSE CategoryLine(exam, Head(cats)) \o FullTextBodyFrom(exam, Tail(cats))

\* fullTextBody after the loop over categoriesOrder
FullTextBody(exam) == FullTextBodyFrom(exam, CategoriesOrder)

\* one item of the abnormal text
AbnormalItem(item) ==
    item.abbreviation \o <<" ">> \o FormatValue(item.value)
        \o <<" ", IF item.abnormality = "HIGH" THEN "↑" ELSE "↓">>

\* abnormalFormattedText
AbnormalFormattedText(exam) ==
    JoinWith([i \in 1..Len(AbnormalResults(exam)) |-> AbnormalItem(AbnormalResults(exam)[i])],
             <<" / ">>)

\* the header of the abnormal text of a LAB record
AbnormalHeader(exam) ==
    exam.patientInitials \o <<" - Lab (">> \o DateStr(exam) \o <<") - ALTERAÇÕES: ">>

\* the header of the full text of a LAB record
FullHeader(exam) ==
    exam.patientInitials \o <<" - Lab (">> \o DateStr(exam) \o <<"):", "\n">>

\* isError
IsError(exam) == exam.results = <<>> /\ exam.nonLabData = None

\* exam.nonLabData?.mainFindings.map(...) throws when the report has no
\* mainFindings
RenderThrows(exam) ==
    /\ exam.category # "LAB"
    /\ exam.nonLabData # None
    /\ exam.nonLabData[1].mainFindings = None

\* the findings of a report, one bullet a line ("* " stands for the bullet
\* character U+2022 and a space)
Findings(exam) ==
    IF exam.nonLabData = None \/ RenderThrows(exam) THEN <<>>
    ELSE LET f == exam.nonLabData[1].mainFindings[1]
         IN  JoinWith([i \in 1..Len(f) |-> <<"* ">> \o f[i]], <<"\n">>)

\* the texts of the card of a LAB record
LabCard(exam) ==
    [ok |-> TRUE,
     fullClipboardText |-> FullHeader(exam) \o Trim(FullTextBody(exam)),
     abnormalClipboardText |-> AbnormalHeader(exam) \o AbnormalFormattedText(exam),
     hasAbnormal |-> AbnormalResults(exam) # <<>>]

\* the texts of the card of any other record, or none of them when the render
\* throws
ReportCard(exam) ==
    IF RenderThrows(exam)
    THEN [ok |-> FALSE, fullClipboardText |-> <<>>, abnormalClipboardText |-> <<>>,
          hasAbnormal |-> FALSE]
    ELSE [ok |-> TRUE,
          fullClipboardText |->
              exam.patientInitials \o <<" - ">>
                  \o (IF exam.nonLabData = None THEN <<"Laudo Médico">>
                      ELSE OrText(exam.nonLabData[1].examTitle, <<"Laudo Médico">>))
                  \o <<" (">> \o DateStr(exam) \o <<"):", "\n", "\n", "ACHADOS:", "\n">>
                  \o Findings(exam)
                  \o <<"\n", "\n", "CONCLUSÃO:", "\n">>
                  \o (IF exam.nonLabData = None THEN <<>>
                      ELSE OrText(exam.nonLabData[1].impression, <<>>)),
          abnormalClipboardText |-> <<>>,
          hasAbnormal |-> FALSE]

\* a card that builds the abnormal text whatever the category
PatientCardAbnormalAnyCategory(exam) ==
    IF exam.category = "LAB" THEN LabCard(exam)
    ELSE [ReportCard(exam) EXCEPT
              !.abnormalClipboardText = AbnormalHeader(exam) \o AbnormalFormattedText(exam),
              !.hasAbnormal = AbnormalResults(exam) # <<>>]

\* the body of PatientCard up to its handlers
PatientCard(exam) ==
    IF exam.category = "LAB" THEN LabCard(exam) ELSE ReportCard(exam)

\* a text without the header it starts with
WithoutHeader(text, header) ==
    IF Len(text) >= Len(header) /\ SubSeq(text, 1, Len(header)) = header
    THEN SubSeq(text, Len(header) + 1, Len(text)) ELSE text

\* the full text as the card shows it: fullClipboardText.replace(header, '')
FullShown(exam) == WithoutHeader(PatientCard(exam).fullClipboardText, FullHeader(exam))

\* the abnormal text as the card shows it: abnormalClipboardText.replace(header, '')
AbnormalShown(exam) ==
    WithoutHeader(PatientCard(exam).abnormalClipboardText, AbnormalHeader(exam))

\* handleCopySummary of the card of the i-th record
CopySummary(i) ==
    /\ Shown("success")
    /\ i \in 1..Len(Records(state))
    /\ \A j \in 1..Len(Records(state)) : PatientCard(Records(state)[j]).ok
    /\ ~IsError(Records(state)[i])
    /\ clipboard' = Some(PatientCard(Records(state)[i]).fullClipboardText)
    /\ UNCHANGED <<state, queuedFiles, preferences, auth, signingOut, recording, calls,
                   nextCall, nextId, apiKey, hist, today>>
    /\ last' = None

\* handleCopyAbnormal of the card of the i-th record: the button is there for
\* a LAB record that has abnormal results
CopyAbnormal(i) ==
    /\ Shown("success")
    /\ i \in 1..Len(Records(state))
    /\ \A j \in 1..Len(Records(state)) : PatientCard(Records(state)[j]).ok
    /\ ~IsError(Records(state)[i])
    /\ Records(state)[i].category = "LAB"
    /\ PatientCard(Records(state)[i]).hasAbnormal
    /\ clipboard' = Some(PatientCard(Records(state)[i]).abnormalClipboardText)
    /\ UNCHANGED <<state, queuedFiles, preferences, auth, signingOut, recording, calls,
                   nextCall, nextId, apiKey, hist, today>>
    /\ last' = None

\* midnight passes while the page is open
DayPasses ==
    /\ today.date < MaxDate
    /\ today' = [today EXCEPT !.date = @ + 1]
    /\ UNCHANGED <<state, queuedFiles, preferences, auth, signingOut, recording, calls,
                   nextCall, nextId, apiKey, hist, clipboard>>
    /\ last' = None

\* ------------------------------------------------------------ specification
Next ==
    \/ AuthChecked
    \/ Login
    \/ \E fileList \in Selections : FileSelect(fileList)
    \/ \E i \in 1..MaxQueue : RemoveFile(i)
    \/ ClearQueue
    \/ TextSubmit
    \/ StartRecording
    \/ AudioSubmit
    \/ StartProcessing
    \/ \E files \in Selections : AddFilesFromResult(files)
    \/ \E id \in 0..MaxRecords : RemoveExam(id)
    \/ Reset
    \/ \E c \in BagToSet(calls) :
           \E env \in Environments(c.input, MaxRecords - nextId) : Complete(c, env)

\* the session of one signed-in user
Spec == Init /\ [][Next]_vars

\* an invocation of processAnalysis in flight runs to its end
CompleteSome ==
    \E c \in BagToSet(calls) :
        \E env \in Environments(c.input, MaxRecords - nextId) : Complete(c, env)

\* the session when the timer fires and the extraction call returns or fails:
\* an invocation in flight does not wait for ever
SpecLive == Spec /\ WF_vars(CompleteSome)

\* the same with sign-out
NextAuth == Next \/ LogoutClick \/ LogoutDone

SpecAuth == Init /\ [][NextAuth]_vars

\* the session with the preference toggles of the idle screen
NextPrefs ==
    \/ Next
    \/ \E field \in {"showReferenceValues", "groupDates"} : TogglePreference(field)

SpecPrefs == Init /\ [][NextPrefs]_vars

\* ------------------------------------------------------ the system instruction
\* the lists the settings modal can hold: none, or one custom abbreviation
CustomAbbreviationSamples ==
    {<<>>, <<[examName |-> "Ferritina", abbreviation |-> "Ferr"]>>}

\* customRulesText: one line for each custom abbreviation under a heading, or ''
CustomRulesText(customAbbreviations) ==
    IF Len(customAbbreviations) > 0
    THEN <<"- **CUSTOM USER ABBREVIATIONS (PRIORITY)**:",
           "If it is a LAB EXAM, use these:">>
         \o JoinWith([i \in 1..Len(customAbbreviations) |->
                         <<"- ", customAbbreviations[i].examName,
                           " MUST be abbreviated as ",
                           customAbbreviations[i].abbreviation>>], <<"\n">>)
    ELSE <<>>

\* referenceValueRule
ReferenceValueRule(prefs) ==
    IF prefs.showReferenceValues
    THEN "- **LAB REFS**: Include reference ranges in 'referenceRange'."
    ELSE "- **LAB REFS**: Leave 'referenceRange' empty."

\* the two rules at the head of the instruction
AntiDuplicationRule ==
    <<"*STRICT ANTI-DUPLICATION RULE*:",
      "- *NEVER* repeat the same abbreviation for the SAME DATE in the output.",
      "- If a document contains multiple columns with different dates (historical evolution), extract ALL columns as separate objects, each with its specific 'date'.">>

NoEvolutionRule ==
    <<"*STRICT NO-EVOLUTION RULE*:",
      "- *NEVER* combine values with arrows (->).",
      "- Always extract each result as a separate entry object with its specific date.",
      "- Example: If Hemoglobin is 12 on 01/01 and 13 on 02/01, create TWO distinct objects in the array. Do not merge them into a string.">>

\* the abbreviations the instruction prescribes, panel by panel
HemogramCodes ==
    <<"Hb", "Ht", "VCM", "CHCM", "RDW", "Leuco", "Neutro", "Bast", "Segmentados",
      "Eosi", "Baso", "Linfo", "Mono", "Plaq">>

RenalCodes == <<"Ur", "Cr">>

ElectrolyteCodes == <<"Na", "K", "P", "Mg", "Ca">>

\* "P/CrU" and the examples of the suffix rule
UrineCodes == <<"P/CrU", "Leuco U", "H U", "Glic U">>

ImmunosuppressantCodes == <<"Fk", "Srl", "Csa", "Evr">>

\* the lines of the instruction that name abbreviations: a heading and the
\* abbreviations of the panel
PanelRules ==
    << <<"4. *STRICT HEMOGRAM RULES*: INCLUDE ONLY:">> \o HemogramCodes
           \o <<"*EXCLUDE*: VPM (MPV).">>,
       <<"5. *RENAL & ELECTROLYTES*:">> \o RenalCodes \o ElectrolyteCodes,
       <<"6. *URINE (URINA)*:">> \o UrineCodes
           \o <<"*EXCLUDE*: Eritr (count), Bili U, Urob U, Ascorbic Acid.">>,
       <<"7. *IMMUNOSUPPRESSANTS*:">> \o ImmunosuppressantCodes,
       <<"8. *PCR*:", "PCR">> >>

\* dateGroupingRule of the earlier revision
DateGroupingRule(prefs) ==
    IF prefs.groupDates
    THEN "- **LAB HISTORY**: If multiple dates exist in a table, combine values with \" -> \"."
    ELSE "- **LAB HISTORY**: Treat each date as a separate entry or pick the most recent."

\* systemInstruction of the earlier revision of analyzeLabExam: its lines
EarlierSystemInstruction(customAbbreviations, prefs) ==
    <<"You are an expert medical assistant designed to summarize medical documents for doctors.",
      "**STEP 1: CLASSIFICATION**",
      "**STEP 2: EXTRACTION RULES**",
      "*** IF \"LAB\" ***:",
      "1. **ANONYMIZATION**: Patient Name -> Initials. Age -> Extract.",
      "2. **DATA**: Extract values, replacing dots with commas. Remove units.",
      "3. **ABNORMALITY**: Classify based on age (Pediatric vs Adult).",
      "4. **ABBREVIATIONS**: Use standard medical abbreviations (Hb, Leuco, Cr, TSH, etc.).",
      ReferenceValueRule(prefs),
      DateGroupingRule(prefs)>>
        \o CustomRulesText(customAbbreviations)
        \o <<"*** IF \"NON_LAB\" ***:",
             "**OUTPUT**:">>

\* an instruction that follows the groupDates preference in place of the two
\* rules at its head
SystemInstructionGrouping(customAbbreviations, prefs) ==
    <<"You are an expert medical assistant designed to summarize medical documents for doctors.",
      DateGroupingRule(prefs)>>
        \o JoinWith(PanelRules, <<"\n">>)
        \o <<ReferenceValueRule(prefs)>>
        \o CustomRulesText(customAbbreviations)

\* systemInstruction of analyzeLabExam: its lines
SystemInstruction(customAbbreviations, prefs) ==
    <<"You are an expert medical assistant designed to summarize medical documents for doctors.">>
        \o AntiDuplicationRule
        \o NoEvolutionRule
        \o <<"*STEP 1: CLASSIFICATION*",
             "*STEP 2: EXTRACTION RULES (LAB)*",
             "1. *ANONYMIZATION*: Patient Name -> Initials. Age -> Extract.",
             "2. *DATA*: Extract values, replacing dots with commas (decimal separator). Remove units.",
             "3. *ABNORMALITY*: Classify HIGH/LOW based on reference or medical knowledge.">>
        \o JoinWith(PanelRules, <<"\n">>)
        \o <<ReferenceValueRule(prefs)>>
        \o CustomRulesText(customAbbreviations)
        \o <<"* IF \"NON_LAB\" *:",
             "*OUTPUT*: Return a JSON ARRAY of objects. Each object represents one patient's record.">>

\* the config of the generateContent request of invocation c
RequestConfig(c, customAbbreviations) ==
    [systemInstruction |-> SystemInstruction(customAbbreviations, c.preferences),
     responseMimeType |-> "application/json"]

\* ------------------------------------------------- one record and its card
\* a labResults item that carries a reference range
LabItemRef(abbr, value, range, abn) ==
    [abbreviation |-> <<abbr>>, value |-> value, referenceRange |-> Some(range),
     abnormality |-> abn]

\* the items the sample lists are built from: two of one category, one of the
\* catch-all category, with and without a range
SampleItems ==
    {LabItem("Hb", <<"12", ".", "5">>, "NORMAL"),
     LabItemRef("Na", <<"150">>, <<"135-145">>, "HIGH"),
     LabItem("K", <<"3", ".", "1">>, "LOW"),
     LabItem("Fk", <<"1", ".", "234", ".", "5">>, "LOW"),
     LabItemRef("Glic", <<"90">>, <<>>, "NORMAL")}

\* the abbreviations of the table
TableAbbreviations ==
    UNION {{SYSTEM_CATEGORIES[i].items[j] : j \in 1..Len(SYSTEM_CATEGORIES[i].items)} :
              i \in 1..Len(SYSTEM_CATEGORIES)}

\* the abbreviations the instruction prescribes
PrescribedAbbreviations ==
    UNION {{codes[i] : i \in 1..Len(codes)} :
              codes \in {HemogramCodes, RenalCodes, ElectrolyteCodes, UrineCodes,
                         ImmunosuppressantCodes}}

\* a patient's name as it is printed on a document: words and blanks
FullName == <<"Maria", " ", "Jose", " ", "Rocha">>

\* a raw object without a report
SampleLab(category, labResults) ==
    [patientInitials |-> Some(<<"MJR">>), patientAge |-> None,
     collectionDate |-> Some(<<"01/02">>), category |-> category,
     labResults |-> labResults, nonLabData |-> None]

\* the reports the schema allows: each property may be missing
SampleReports ==
    {[examTitle |-> t, mainFindings |-> m, impression |-> i] :
        t \in {None, Some(<<"USG Abdominal">>)},
        m \in {None, Some(<<>>), Some(<< <<"Figado normal">>, <<"Rins normais">> >>)},
        i \in {None, Some(<<"Sem alteracoes">>)}}

\* the raw objects a response is made of when one record is looked at: LAB
\* objects with every list of sample items up to MaxResults, with no list, with
\* no category, with no date, with the patient's name where the initials
\* belong, with one item for each abbreviation of the table, for each that the
\* instruction prescribes and for one in neither, and NON_LAB objects with and
\* without a report and a list
RecordSamples ==
    {SampleLab(Some("LAB"), Some(r)) : r \in SeqsUpTo(SampleItems, MaxResults)}
        \cup {SampleLab(c, l) : c \in {None, Some("LAB")},
                                l \in {None, Some(<<LabItem("K", <<"3">>, "LOW")>>)}}
        \cup {[SampleLab(Some("LAB"), Some(<<i>>)) EXCEPT !.collectionDate = None] :
                 i \in SampleItems}
        \cup {[SampleLab(Some("LAB"), Some(<<i>>)) EXCEPT !.patientInitials = Some(FullName)] :
                 i \in SampleItems}
        \cup {SampleLab(Some("LAB"), Some(<<LabItem(a, <<"1">>, "NORMAL")>>)) :
                 a \in TableAbbreviations \cup PrescribedAbbreviations \cup {"hb"}}
        \cup {[SampleLab(Some("NON_LAB"), l) EXCEPT !.nonLabData = n] :
                 l \in {None, Some(<<LabItem("K", <<"3">>, "LOW")>>)},
                 n \in {None} \cup {Some(r) : r \in SampleReports}}

\* generateContent answers with the JSON array of one raw object
SampleEnvironments ==
    {[bad |-> {}, resp |-> [kind |-> "text", form |-> "json",
                            value |-> [kind |-> "array", items |-> <<raw>>]]] :
        raw \in RecordSamples}

\* one text is submitted under any preferences and its record is looked at
NextRecord ==
    \/ AuthChecked
    \/ Login
    \/ \E field \in {"showReferenceValues", "groupDates"} : TogglePreference(field)
    \/ TextSubmit
    \/ \E c \in BagToSet(calls) : \E env \in SampleEnvironments : Complete(c, env)
    \/ \E i \in 1..MaxRecords : CopySummary(i)
    \/ \E i \in 1..MaxRecords : CopyAbnormal(i)

SpecRecord == Init /\ [][NextRecord]_vars

\* the same while the days pass
NextClock == NextRecord \/ DayPasses

SpecClock == Init /\ [][NextClock]_vars

\* ------------------------------------------------------------------ claims

\* C1: when processAnalysis is given a non-empty list of prior records and the
\* extraction fails, the record list after the failure equals the list before
\* the attempt.
C1_FailedBatchKeepsPriorRecords ==
    [][\A c \in BagToSet(calls) : \A env \in AllEnvironments :
          (/\ Complete(c, env)
           /\ Records([data |-> c.existingData]) # <<>>
           /\ ~AnalyzeLabExam(c.input, env, apiKey, nextId).ok)
              => Records(state') = Records([data |-> c.existingData])]_vars

\* C2: at most one processAnalysis is in flight at any time.
C2_OneRequestInFlight == BagCardinality(calls) <= 1


\* ids grow along the list: the records stand in the order they were created
InAppendOrder(records) ==
    \A i, j \in 1..Len(records) : i < j => records[i].id < records[j].id

\* C3: as long as only successful analyses and removals have happened, the
\* number of records is the number of records extracted minus the number
\* removed, and the records stand in the order they were appended.
C3_MergeAppendOnly ==
    hist.clean =>
        /\ Len(Records(state)) = hist.added - hist.removed
        /\ InAppendOrder(Records(state))

\* two batches were appended and a record removed; the same patient is held twice
C3_Witness ==
    /\ hist.clean
    /\ hist.added >= 2
    /\ hist.removed >= 1
    /\ Len(Records(state)) >= 1

\* no two records of the list have the same id
DistinctIds(records) ==
    \A i, j \in 1..Len(records) : i # j => records[i].id # records[j].id

\* every record of after is a record of before, unchanged
AllFrom(after, before) ==
    \A i \in 1..Len(after) : \E j \in 1..Len(before) : after[i] = before[j]

\* C4: record ids are pairwise distinct in every state, and the records left
\* by a removal are records held before it, with the ids they had.
C4_IdsUniqueAndStable ==
    [][/\ DistinctIds(Records(state'))
       /\ \A id \in RemovableIds :
              RemoveExam(id) => AllFrom(Records(state'), Records(state))]_vars

\* a record drawn second stands first after a removal, with its id
C4_Witness ==
    /\ hist.removed >= 1
    /\ Len(Records(state)) >= 1
    /\ Records(state)[1].id >= 2

\* after is before without its j-th element
WithoutIndex(before, after, j) ==
    /\ j \in 1..Len(before)
    /\ after = SubSeq(before, 1, j - 1) \o SubSeq(before, j + 1, Len(before))

\* C5: remove(id) deletes exactly the record with that id and keeps the others
\* in their order; an id that is not held changes nothing; when no record is
\* left the session is idle with no records and no error.
C5_RemoveExactlyOne ==
    [][\A id \in RemovableIds :
          RemoveExam(id) =>
              /\ IF \E j \in 1..Len(Records(state)) : Records(state)[j].id = id
                 THEN \E j \in 1..Len(Records(state)) :
                          /\ Records(state)[j].id = id
                          /\ WithoutIndex(Records(state), Records(state'), j)
                 ELSE Records(state') = Records(state)
              /\ Records(state') = <<>> =>
                     state' = [status |-> "idle", data |-> None, error |-> None]]_vars

\* one record was appended and then removed: the session is idle again
C5_Witness ==
    /\ hist.clean
    /\ hist.added = 1
    /\ hist.removed = 1
    /\ state = [status |-> "idle", data |-> None, error |-> None]

\* C6: reset() leaves the session idle with no records, no error and an empty
\* queue, whatever the status it is called in.
C6_ResetClearsSession ==
    [][Reset =>
          /\ state'.status = "idle"
          /\ Records(state') = <<>>
          /\ state'.error = None
          /\ queuedFiles' = <<>>]_vars

\* the session is idle while an analysis is in flight and no record was ever
\* created: reset was called in status analyzing
C6_Witness ==
    /\ state.status = "idle"
    /\ calls # EmptyBag
    /\ nextId = 0
    /\ queuedFiles = <<>>

\* the request of the run that has just ended was answered with no usable text
ExtractionFailed ==
    /\ last # None
    /\ last[1].requested
    /\ \/ last[1].resp[1] = "throw"
       \/ last[1].resp[2] \in {"empty", "garbage"}
       \/ last[1].resp[3] = "null"

\* C7: when the extraction call throws or answers with an empty or unparseable
\* text, analyzeLabExam returns no record and throws the generic error, and the
\* session holds no record of that attempt; a batch that is returned is merged
\* whole.
C7_ExtractionFailureIsAtomic ==
    /\ ExtractionFailed =>
           /\ ~last[1].ok
           /\ last[1].returned = 0
           /\ last[1].message = Some(GenericErrorMessage)
           /\ state.status = "error"
           /\ state.error = Some(GenericErrorMessage)
           /\ Records(state) = <<>>
    /\ (last # None /\ last[1].ok) =>
           Len(Records(state)) = last[1].prior + last[1].returned

\* an unparseable text has just been answered and the generic error is shown
C7_Witness ==
    /\ ExtractionFailed
    /\ last[1].resp[2] = "garbage"
    /\ state.error = Some(GenericErrorMessage)

\* C8: without the credential analyzeLabExam fails before any conversion or
\* request, and the configuration error's message reaches the session as it is.
C8_MissingKeyFailsFast ==
    (last # None /\ ~apiKey) =>
        /\ ~last[1].ok
        /\ last[1].conversions = 0
        /\ ~last[1].parts
        /\ ~last[1].requested
        /\ state.status = "error"
        /\ state.error = Some(ConfigErrorMessage)

\* a file batch has just failed for the missing credential
C8_Witness ==
    /\ last # None
    /\ ~apiKey
    /\ last[1].kind = "files"
    /\ state.error = Some(ConfigErrorMessage)

\* C9: when a conversion fails for one file of the input, no part list is
\* built, no request is sent and no record is merged.
C9_ConversionFailureIsAtomic ==
    (last # None /\ apiKey /\ last[1].bad # {}) =>
        /\ ~last[1].parts
        /\ ~last[1].requested
        /\ ~last[1].ok
        /\ last[1].returned = 0
        /\ state.status = "error"
        /\ Records(state) = <<>>

\* a batch of several files has just failed, one file converted and one not
C9_Witness ==
    /\ last # None
    /\ apiKey
    /\ last[1].kind = "files"
    /\ last[1].files >= 2
    /\ last[1].bad # {}
    /\ Cardinality(last[1].bad) < last[1].files
    /\ state.status = "error"

\* C10: every record of the session has the payload of its category and only
\* that: a LAB record no nonLabData, a NON_LAB record no results and a
\* nonLabData.
C10_PayloadMatchesCategory ==
    \A i \in 1..Len(Records(state)) :
        /\ Records(state)[i].category = "LAB" => Records(state)[i].nonLabData = None
        /\ Records(state)[i].category = "NON_LAB" =>
               /\ Records(state)[i].results = <<>>
               /\ Records(state)[i].nonLabData # None

\* the run that has just ended sent its request and got raw objects back
JustAnswered == last # None /\ last[1].requested /\ last[1].raw # <<>>

\* the k-th raw object of the response of the run that has just ended
RawOf(k) == last[1].raw[k]

\* the record of the session made from it
RecordOf(k) == Records(state)[last[1].prior + k]

\* C11: a NON_LAB raw object whose nonLabData lacks mainFindings or impression
\* is stored with mainFindings = [] and impression = "", and the card of the
\* record renders.
C11_NonLabDefaults ==
    (JustAnswered /\ last[1].ok) =>
        \A k \in 1..Len(last[1].raw) :
            (RawOf(k).category = Some("NON_LAB") /\ RawOf(k).nonLabData # None) =>
                /\ RecordOf(k).nonLabData # None
                /\ RawOf(k).nonLabData[1].mainFindings = None =>
                       RecordOf(k).nonLabData[1].mainFindings = Some(<<>>)
                /\ RawOf(k).nonLabData[1].impression = None =>
                       RecordOf(k).nonLabData[1].impression = Some(<<>>)
                /\ PatientCard(RecordOf(k)).ok

\* "{abbreviation} {value}" of the results, joined with " / "
JoinedResults(results) ==
    JoinWith([i \in 1..Len(results) |-> results[i].abbreviation \o <<" ">> \o results[i].value],
             <<" / ">>)

\* C12: rawSummary is "{examTitle}: {impression}" for a NON_LAB record with its
\* report, the joined "{abbreviation} {value}" of the results for a LAB record
\* with results, and the fallback string for a LAB record without results,
\* whether labResults was absent or empty.
C12_RawSummary ==
    (JustAnswered /\ last[1].ok) =>
        \A k \in 1..Len(last[1].raw) :
            /\ (/\ RawOf(k).category = Some("NON_LAB")
                /\ RawOf(k).nonLabData # None
                /\ RawOf(k).nonLabData[1].examTitle # None
                /\ RawOf(k).nonLabData[1].impression # None) =>
                   RecordOf(k).rawSummary =
                       RawOf(k).nonLabData[1].examTitle[1] \o <<": ">>
                           \o RawOf(k).nonLabData[1].impression[1]
            /\ (RecordOf(k).category = "LAB" /\ RecordOf(k).results # <<>>) =>
                   RecordOf(k).rawSummary = JoinedResults(RecordOf(k).results)
            /\ (RecordOf(k).category = "LAB" /\ RecordOf(k).results = <<>>) =>
                   RecordOf(k).rawSummary = SemDados

\* C13: a raw object without category becomes a LAB record, one of category
\* LAB without labResults gets results = [] and the fallback rawSummary, and
\* the run does not fail for the missing fields.
C13_MissingFieldsDefault ==
    JustAnswered =>
        /\ last[1].ok
        /\ \A k \in 1..Len(last[1].raw) :
               /\ RawOf(k).category = None => RecordOf(k).category = "LAB"
               /\ (RawOf(k).category = Some("LAB") /\ RawOf(k).labResults = None) =>
                      /\ RecordOf(k).results = <<>>
                      /\ RecordOf(k).rawSummary = SemDados

\* a raw object with neither category nor labResults has just been stored
C13_Witness ==
    /\ JustAnswered
    /\ RawOf(1).category = None
    /\ RawOf(1).labResults = None
    /\ RecordOf(1).category = "LAB"
    /\ RecordOf(1).rawSummary = SemDados

\* C14: every processAnalysis that starts hands analyzeLabExam the preferences
\* that are current when it starts, whatever the input path.
C14_PreferencesReadFresh ==
    [][\A c \in BagToSet(calls') :
          CopiesIn(c, calls') > CopiesIn(c, calls) => c.preferences = preferences]_vars

\* C15: every file handed to analyzeLabExam is a PDF or an image of at most
\* 15 MB.
C15_OnlyValidFilesAnalyzed ==
    \A c \in BagToSet(calls) :
        c.input.kind = "files" =>
            \A i \in 1..Len(c.input.files) :
                /\ TypeAccepted(c.input.files[i])
                /\ c.input.files[i].size <= MaxFileMB

\* C16: the records of a call made with showReferenceValues off carry no
\* reference range, and their full text shows no "(Ref: ...)".
C16_NoRangeWithoutPreference ==
    (JustAnswered /\ last[1].ok /\ ~last[1].preferences.showReferenceValues) =>
        \A k \in 1..Len(last[1].raw) :
            /\ \A i \in 1..Len(RecordOf(k).results) :
                   ~TruthyText(RecordOf(k).results[i].referenceRange)
            /\ \A j \in 1..Len(PatientCard(RecordOf(k)).fullClipboardText) :
                   PatientCard(RecordOf(k)).fullClipboardText[j] # " (Ref: "

RECURSIVE ExpectedAbnormal(_, _)
\* the HIGH and LOW results in their order, each as "{abbr} {value} {arrow}",
\* joined with " / ", the value as it is in the record or with its dots made
\* commas
ExpectedAbnormal(results, commas) ==
    IF results = <<>> THEN <<>>
    ELSE LET item == Head(results)
             rest == ExpectedAbnormal(Tail(results), commas)
             value == IF commas
                      THEN [i \in 1..Len(item.value) |->
                               IF item.value[i] = "." THEN "," ELSE item.value[i]]
                      ELSE item.value
             entry == item.abbreviation \o <<" ">> \o value
                          \o <<" ", IF item.abnormality = "HIGH" THEN "↑" ELSE "↓">>
         IN  IF item.abnormality \notin {"HIGH", "LOW"} THEN rest
             ELSE IF rest = <<>> THEN entry
             ELSE entry \o <<" / ">> \o rest

\* C17 as claimed: the abnormal-only summary of a LAB record is its HIGH and
\* LOW results in order, each rendered "{abbr} {value} {arrow}" with the value
\* of the record, joined with " / ".
C17_AbnormalSummaryAsClaimed ==
    \A r \in 1..Len(Records(state)) :
        Records(state)[r].category = "LAB" =>
            AbnormalShown(Records(state)[r]) =
                ExpectedAbnormal(Records(state)[r].results, FALSE)

\* C17 amended: the same, the value rendered with every "." replaced by ",".
C17_AbnormalSummary ==
    \A r \in 1..Len(Records(state)) :
        Records(state)[r].category = "LAB" =>
            /\ AbnormalShown(Records(state)[r]) =
                   ExpectedAbnormal(Records(state)[r].results, TRUE)
            /\ PatientCard(Records(state)[r]).abnormalClipboardText =
                   AbnormalHeader(Records(state)[r])
                       \o ExpectedAbnormal(Records(state)[r].results, TRUE)

\* the abnormal text of a record with a NORMAL, a HIGH and a LOW result, in
\* that order, has been copied
C17_Witness ==
    /\ Len(Records(state)) = 1
    /\ Len(Records(state)[1].results) = 3
    /\ Records(state)[1].results[1].abnormality = "NORMAL"
    /\ Records(state)[1].results[2].abnormality = "HIGH"
    /\ Records(state)[1].results[3].abnormality = "LOW"
    /\ clipboard = Some(PatientCard(Records(state)[1]).abnormalClipboardText)

\* C18: a NON_LAB record has no abnormal-only summary whatever it holds, and a
\* LAB record without a HIGH or LOW result has an empty one.
C18_NothingAbnormalNoSummary ==
    \A r \in 1..Len(Records(state)) :
        /\ Records(state)[r].category = "NON_LAB" =>
               /\ PatientCard(Records(state)[r]).abnormalClipboardText = <<>>
               /\ AbnormalShown(Records(state)[r]) = <<>>
               /\ ~PatientCard(Records(state)[r]).hasAbnormal
        /\ (/\ Records(state)[r].category = "LAB"
            /\ \A i \in 1..Len(Records(state)[r].results) :
                   Records(state)[r].results[i].abnormality \notin {"HIGH", "LOW"}) =>
               /\ AbnormalShown(Records(state)[r]) = <<>>
               /\ ~PatientCard(Records(state)[r]).hasAbnormal

\* a NON_LAB record that holds a LOW result is on the result screen
C18_Witness ==
    /\ Shown("success")
    /\ Len(Records(state)) = 1
    /\ Records(state)[1].category = "NON_LAB"
    /\ Records(state)[1].results # <<>>
    /\ Records(state)[1].results[1].abnormality = "LOW"
    /\ PatientCard(Records(state)[1]).ok

\* the category the table declares abbr under, the catch-all when it declares
\* it nowhere
DeclaredCategory(abbr) ==
    IF \E i \in 1..Len(SYSTEM_CATEGORIES) :
           \E j \in 1..Len(SYSTEM_CATEGORIES[i].items) :
               <<SYSTEM_CATEGORIES[i].items[j]>> = abbr
    THEN SYSTEM_CATEGORIES[CHOOSE i \in 1..Len(SYSTEM_CATEGORIES) :
                               \E j \in 1..Len(SYSTEM_CATEGORIES[i].items) :
                                   <<SYSTEM_CATEGORIES[i].items[j]>> = abbr].category
    ELSE "OUTROS"

RECURSIVE ExpectedItems(_, _)
\* the results declared under cat, in their order, joined with " / "
ExpectedItems(results, cat) ==
    IF results = <<>> THEN <<>>
    ELSE LET item == Head(results)
             rest == ExpectedItems(Tail(results), cat)
             entry == item.abbreviation \o <<" ">>
                          \o [i \in 1..Len(item.value) |->
                                 IF item.value[i] = "." THEN "," ELSE item.value[i]]
                          \o (IF item.referenceRange # None /\ item.referenceRange[1] # <<>>
                              THEN <<" (Ref: ">> \o item.referenceRange[1] \o <<")">>
                              ELSE <<>>)
         IN  IF DeclaredCategory(item.abbreviation) # cat THEN rest
             ELSE IF rest = <<>> THEN entry
             ELSE entry \o <<" / ">> \o rest

RECURSIVE ExpectedLines(_, _)
\* one line for each category of cats that has results, in the order of cats,
\* labelled unless it is the catch-all
ExpectedLines(results, cats) ==
    IF cats = <<>> THEN <<>>
    ELSE IF ExpectedItems(results, Head(cats)) = <<>>
    THEN ExpectedLines(results, Tail(cats))
    ELSE <<(IF Head(cats) = "OUTROS" THEN <<>> ELSE <<Head(cats), ": ">>)
               \o ExpectedItems(results, Head(cats))>>
             \o ExpectedLines(results, Tail(cats))

\* the categories in the order they are declared, the catch-all last
DeclaredOrder ==
    [i \in 1..Len(SYSTEM_CATEGORIES) |-> SYSTEM_CATEGORIES[i].category] \o <<"OUTROS">>

RECURSIVE SplitLines(_)
\* the lines of a text
SplitLines(text) ==
    IF text = <<>> THEN <<>>
    ELSE IF \E k \in 1..Len(text) : text[k] = "\n"
    THEN LET k == CHOOSE k \in 1..Len(text) :
                      text[k] = "\n" /\ \A j \in 1..(k - 1) : text[j] # "\n"
         IN  <<SubSeq(text, 1, k - 1)>> \o SplitLines(SubSeq(text, k + 1, Len(text)))
    ELSE <<text>>

\* the items a text lists: one for each line and one more for each " / "
ItemsListed(text) ==
    Len(SplitLines(text)) + Cardinality({k \in 1..Len(text) : text[k] = " / "})

\* C19: the full summary of a LAB record has one line for each category that
\* has results, in the declared order with the catch-all last, each line
\* labelled "{CATEGORY}: " except the catch-all's, the items of a line in their
\* order joined with " / ", and every result listed once.
C19_FullSummaryGrouped ==
    \A r \in 1..Len(Records(state)) :
        Records(state)[r].category = "LAB" =>
            /\ SplitLines(FullShown(Records(state)[r])) =
                   ExpectedLines(Records(state)[r].results, DeclaredOrder)
            /\ ItemsListed(FullShown(Records(state)[r])) = Len(Records(state)[r].results)
            /\ PatientCard(Records(state)[r]).fullClipboardText =
                   FullHeader(Records(state)[r]) \o FullShown(Records(state)[r])

\* the full text of a record whose three results are of a later category, of
\* the catch-all and of the first category, in that order, has been copied
C19_Witness ==
    /\ Len(Records(state)) = 1
    /\ Records(state)[1].category = "LAB"
    /\ Len(Records(state)[1].results) = 3
    /\ Records(state)[1].results[1].abbreviation = <<"Na">>
    /\ Records(state)[1].results[2].abbreviation = <<"Fk">>
    /\ Records(state)[1].results[3].abbreviation = <<"Hb">>
    /\ clipboard = Some(PatientCard(Records(state)[1]).fullClipboardText)
    /\ Len(SplitLines(FullShown(Records(state)[1]))) = 3

\* no abbreviation is declared under two categories of the table
DeclaredOnce ==
    \A i, j \in 1..Len(SYSTEM_CATEGORIES) :
        \A a \in TableAbbreviations :
            (Includes(SYSTEM_CATEGORIES[i].items, <<a>>)
                /\ Includes(SYSTEM_CATEGORIES[j].items, <<a>>)) => i = j

\* C20: getCategory answers, for an abbreviation of the table, the category it
\* is declared under, no abbreviation being declared under two, and the
\* catch-all for any other.
C20_GetCategoryCoversTable ==
    /\ DeclaredOnce
    /\ \A r \in 1..Len(Records(state)) :
           \A k \in 1..Len(Records(state)[r].results) :
               LET abbr == Records(state)[r].results[k].abbreviation
               IN  /\ \A i \in 1..Len(SYSTEM_CATEGORIES) :
                          Includes(SYSTEM_CATEGORIES[i].items, abbr) =>
                              GetCategory(abbr) = SYSTEM_CATEGORIES[i].category
                   /\ (\A i \in 1..Len(SYSTEM_CATEGORIES) :
                          ~Includes(SYSTEM_CATEGORIES[i].items, abbr)) =>
                              GetCategory(abbr) = "OUTROS"

\* a result of the last category of the table is on the result screen
C20_Witness ==
    /\ Shown("success")
    /\ Len(Records(state)) = 1
    /\ Len(Records(state)[1].results) = 1
    /\ Records(state)[1].results[1].abbreviation = <<"Prot-U">>
    /\ GetCategory(Records(state)[1].results[1].abbreviation) = "URINA"

\* the records held both before and after a step
KeptRecords ==
    {Records(state)[i] : i \in 1..Len(Records(state))}
        \cap {Records(state')[i] : i \in 1..Len(Records(state'))}

\* C21: formatting the same record at two moments gives the same full text and
\* the same abnormal text, also when its collectionDate is empty and whatever
\* the time between the two moments, and copying a text leaves the records as
\* they were
C21_FormattingRepeatable ==
    [][/\ \A exam \in KeptRecords :
              PatientCard(exam).ok =>
                  /\ PatientCard(exam).fullClipboardText
                         = (PatientCard(exam).fullClipboardText)'
                  /\ PatientCard(exam).abnormalClipboardText
                         = (PatientCard(exam).abnormalClipboardText)'
       /\ (\E i \in 1..MaxRecords : CopySummary(i) \/ CopyAbnormal(i))
              => state' = state]_vars

\* the text holds the part as a run of consecutive tokens
Contains(text, part) ==
    \E k \in 0..(Len(text) - Len(part)) : SubSeq(text, k + 1, k + Len(part)) = part

\* C22: in the full text of a LAB record every "." of a result's value is
\* shown as "," and everything else of the value as it is, so that a value
\* without a dot is shown unchanged, and formatting the shown value again
\* gives the shown value
C22_DotsShownAsCommas ==
    \A i \in 1..Len(Records(state)) :
        LET exam == Records(state)[i] IN
        (exam.category = "LAB" /\ PatientCard(exam).ok) =>
            \A k \in 1..Len(exam.results) :
                LET value == exam.results[k].value
                    shown == FormatValue(value)
                IN  /\ Len(shown) = Len(value)
                    /\ \A j \in 1..Len(value) :
                           shown[j] = (IF value[j] = "." THEN "," ELSE value[j])
                    /\ (\A j \in 1..Len(value) : value[j] # ".") => shown = value
                    /\ FormatValue(shown) = shown
                    /\ Contains(PatientCard(exam).fullClipboardText,
                                exam.results[k].abbreviation \o <<" ">> \o shown)
                    /\ ("." \in {value[j] : j \in 1..Len(value)}) =>
                           ~Contains(PatientCard(exam).fullClipboardText,
                                     exam.results[k].abbreviation \o <<" ">> \o value)

\* the full text of a record with the value "1.234.5" and a value without a
\* dot has been copied
C22_Witness ==
    /\ Len(Records(state)) = 1
    /\ Records(state)[1].category = "LAB"
    /\ \E k \in 1..Len(Records(state)[1].results) :
           Records(state)[1].results[k].value = <<"1", ".", "234", ".", "5">>
    /\ \E k \in 1..Len(Records(state)[1].results) :
           Records(state)[1].results[k].value = <<"150">>
    /\ clipboard = Some(PatientCard(Records(state)[1]).fullClipboardText)
    /\ Contains(clipboard[1], <<"Fk", " ", "1", ",", "234", ",", "5">>)
    /\ Contains(clipboard[1], <<"Na", " ", "150">>)

\* an initials string: one word, no blank in it
IsInitials(text) == Len(text) = 1 /\ text[1] # " "

\* C23: the patientInitials of every record held is an initials string,
\* whatever the extraction service returned
C23_InitialsOnly ==
    \A i \in 1..Len(Records(state)) : IsInitials(Records(state)[i].patientInitials)

\* the preferences with the other value of groupDates
OtherGrouping(prefs) == [prefs EXCEPT !.groupDates = ~@]

\* C24: the instruction sent for an analysis is the same for either value of
\* groupDates and always holds the rule against repeating an abbreviation for
\* a date and the rule against merging values with arrows; the instruction of
\* the earlier revision is the one that differs with groupDates
C24_InstructionIgnoresGroupDates ==
    \A c \in BagToSet(calls) : \A custom \in CustomAbbreviationSamples :
        /\ RequestConfig(c, custom).systemInstruction
               = SystemInstruction(custom, OtherGrouping(c.preferences))
        /\ Contains(RequestConfig(c, custom).systemInstruction, AntiDuplicationRule)
        /\ Contains(RequestConfig(c, custom).systemInstruction, NoEvolutionRule)
        /\ EarlierSystemInstruction(custom, c.preferences)
               # EarlierSystemInstruction(custom, OtherGrouping(c.preferences))

\* an analysis is in flight that was started with groupDates on
C24_Witness ==
    \E c \in BagToSet(calls) : c.preferences.groupDates /\ state.status = "analyzing"

\* C25: once reset or logout has emptied the session it stays empty until new
\* input is submitted: an analysis that ends while the session is idle puts
\* neither records nor an error back, and no records are held when a user
\* signs in
C25_EmptiedSessionStaysEmpty ==
    [][/\ (state.status = "idle" /\ last' # None) => state' = state
       /\ Login => (Records(state') = <<>> /\ state'.error = None)]_vars

\* C26: while the status is success at least one record is held
C26_SuccessHoldsRecords ==
    state.status = "success" => Records(state) # <<>>

\* C27: while the status is idle the record list is null, so that starting to
\* process the queue, which hands no prior records on, discards no record
C27_IdleHoldsNoList ==
    state.status = "idle" => (state.data = None /\ Records(state) = <<>>)

\* the last record has been removed from the result screen while files wait in
\* the queue: the idle screen is back
C27_Witness ==
    /\ state.status = "idle"
    /\ hist.clean
    /\ hist.added > 0
    /\ hist.removed = hist.added
    /\ queuedFiles # <<>>

\* the panel the instruction prescribes the abbreviation for, if it does
PrescribedPanel(abbr) ==
    IF \E i \in 1..Len(HemogramCodes) : <<HemogramCodes[i]>> = abbr THEN Some("HEMOGRAMA")
    ELSE IF \E i \in 1..Len(RenalCodes) : <<RenalCodes[i]>> = abbr THEN Some("RENAL")
    ELSE IF \E i \in 1..Len(ElectrolyteCodes) : <<ElectrolyteCodes[i]>> = abbr
    THEN Some("ELETRÓLITOS")
    ELSE IF \E i \in 1..Len(UrineCodes) : <<UrineCodes[i]>> = abbr THEN Some("URINA")
    ELSE None

\* C28: a result whose abbreviation the instruction prescribes for the
\* hemogram, the renal, the electrolyte or the urine panel is put by
\* getCategory into that panel's category
C28_PrescribedCodesClassified ==
    \A i \in 1..Len(Records(state)) : \A k \in 1..Len(Records(state)[i].results) :
        LET abbr == Records(state)[i].results[k].abbreviation
        IN  PrescribedPanel(abbr) # None => GetCategory(abbr) = PrescribedPanel(abbr)[1]

\* C29: the queue changes only when files are selected, when one file is
\* removed, when it is cleared, on reset (pressed, or called by logout) and when
\* an analysis of a file list ends in success, which empties it; an analysis
\* that fails and a successful analysis of a text or a recording leave the
\* queue as it was
C29_QueueFrame ==
    [][/\ last' # None =>
              queuedFiles' = (IF last'[1].ok /\ last'[1].kind = "files"
                              THEN <<>> ELSE queuedFiles)
       /\ (last' = None /\ queuedFiles' # queuedFiles) =>
              \/ \E fileList \in Selections : FileSelect(fileList)
              \/ \E i \in 1..Len(queuedFiles) : RemoveFile(i)
              \/ ClearQueue
              \/ Reset
              \/ LogoutDone]_vars

\* the analysis of a batch of files has just failed and the files are still
\* in the queue
C29_Witness ==
    /\ last # None
    /\ last[1].kind = "files"
    /\ ~last[1].ok
    /\ last[1].files > 0
    /\ Len(queuedFiles) = last[1].files
    /\ state.status = "error"

\* C30: an analysis that has put the session into analyzing is followed by a
\* state whose status is not analyzing, provided the extraction call returns
\* or fails
C30_AnalyzingEnds ==
    (state.status = "analyzing") ~> (state.status # "analyzing")

\* the analysis of a recording has ended and nothing is in flight
C30_Witness ==
    /\ last # None
    /\ last[1].kind = "blob"
    /\ calls = EmptyBag
    /\ state.status \in {"success", "error"}

====
